---- MODULE Spec2Model ----
(***************************************************************************)
(* A model of the portfolio site's flows:                                  *)
(*   - the contact backend (src/tailwind.config.js, lines 57-189): startup *)
(*     check, CORS, rate limiter, validation chains, mail composition and  *)
(*     the sendMail call;                                                  *)
(*   - the profile photo controller of src/src/Portfolio.jsx;              *)
(*   - the contact form of src/src/Portfolio.jsx (handleSubmit).           *)
(* Strings are sequences of one-character strings.                         *)
(***************************************************************************)
EXTENDS Integers, Sequences, FiniteSets, TLC

VARIABLES
    \* ---- contact backend -------------------------------------------------
    env,          \* the set of environment variables that are set
    proc,         \* the backend process: "boot", "configured", "listening", "exited"
    now,          \* Date.now() in ms
    hits,         \* rate limiter store: identity -> totalHits of its window
    resetTime,    \* rate limiter store: identity -> end of its window (0: no client)
    req,          \* slot -> the request being handled (stage, ip, body)
    errors,       \* slot -> validationResult(req).array()
    sendCalls,    \* slot -> number of transporter.sendMail calls made for it
    outcome,      \* slot -> how its sendMail call settled
    mail,         \* slot -> the message handed to sendMail
    responses,    \* slot -> the responses written for the request, in order
    seen,         \* history: identity -> requests the limiter handled in its window
    passed,       \* history: identity -> those of them it let through
    passLog,      \* history: identity -> times of the requests let through
    \* ---- escapeHtml as a function under test -------------------------------
    fnIn,         \* input of the pure function being exercised
    fnOut,        \* its result
    fnPc,         \* "in": not applied yet, "out": applied
    \* ---- profile photo (browser) ------------------------------------------
    idb,              \* object store "photos" of "portfolio-db": key -> value
    txQueue,          \* operations whose transaction is active, oldest first
    openConns,        \* connections opened by openDB and not closed
    mounted,          \* the Portfolio component is mounted
    profilePicUrl,    \* React state: the src of the profile image
    photoError,       \* React state: the message under the image
    lastObjectUrlRef, \* ref: the object URL made for the stored blob
    liveUrls,         \* object URLs created and not revoked
    ops,              \* operation -> [kind, pc, file, blob, result]
    \* ---- contact form (browser) -------------------------------------------
    formData,         \* React state: the four fields of the form
    isSubmitting,     \* React state: a submission is under way
    submitStatus,     \* React state: "", "success" or "error"
    calls             \* handleSubmit call -> [pc, sent, net, res]

serverVars == <<now, hits, resetTime, req, errors, sendCalls, outcome, mail,
                responses, seen, passed, passLog>>
startVars == <<env, proc>>
formVars == <<formData, isSubmitting, submitStatus, calls>>
fnVars == <<fnIn, fnOut, fnPc>>
photoVars == <<idb, txQueue, openConns, mounted, profilePicUrl, photoError,
               lastObjectUrlRef, liveUrls, ops>>
vars == <<env, proc, now, hits, resetTime, req, errors, sendCalls,
          outcome, mail, responses, seen, passed, passLog, fnIn, fnOut, fnPc,
          idb, txQueue, openConns, mounted, profilePicUrl, photoError,
          lastObjectUrlRef, liveUrls, ops,
          formData, isSubmitting, submitStatus, calls>>

(***************************************************************************)
(* Helpers on strings                                                      *)
(***************************************************************************)
SetMin(S) == CHOOSE x \in S : \A y \in S : x <= y
SetMax(S) == CHOOSE x \in S : \A y \in S : x >= y

\* n copies of character c
Rep(c, n) == [i \in 1..n |-> c]

Whitespace == {" "}

RECURSIVE skipLeft(_, _)
\* the first position from i on that holds no whitespace (Len(s) + 1: none)
skipLeft(s, i) ==
    IF i > Len(s) \/ s[i] \notin Whitespace THEN i ELSE skipLeft(s, i + 1)

RECURSIVE skipRight(_, _)
\* the last position up to i that holds no whitespace (0: none)
skipRight(s, i) ==
    IF i < 1 \/ s[i] \notin Whitespace THEN i ELSE skipRight(s, i - 1)

\* String.prototype.trim as express-validator's trim() sanitizer applies it
trim(s) == SubSeq(s, skipLeft(s, 1), skipRight(s, Len(s)))

\* (mutant) a maximum that is not itself allowed
isLengthBelowMax(s, min, max) == Len(s) >= min /\ Len(s) < max

\* validator isLength({min, max})
isLength(s, min, max) == Len(s) >= min /\ Len(s) <= max

Letters == {"a", "b", "c", "l", "m", "o", "n", "e", "i", "t", "A", "H", "h", "s", "r", "p"}
UserChars == Letters \cup {"-", "&", "'", "#"}
DomainChars == Letters \cup {"-"}

\* every "."-separated part of s is non-empty and made of chars
DotParts(s, chars) ==
    /\ Len(s) >= 1
    /\ s[1] # "." /\ s[Len(s)] # "."
    /\ \A i \in 1..Len(s) : s[i] \in chars \cup {"."}
    /\ \A i \in 1..(Len(s) - 1) : ~(s[i] = "." /\ s[i + 1] = ".")

\* validator isEmail with its default options, on the model's alphabet:
\* user@domain split at the last "@", the user part made of dot-separated
\* atoms, the domain a fully qualified name whose last label has two letters
\* or more
isEmail(s) ==
    LET ats == {i \in 1..Len(s) : s[i] = "@"} IN
    /\ ats # {}
    /\ LET k == SetMax(ats)
           user == SubSeq(s, 1, k - 1)
           domain == SubSeq(s, k + 1, Len(s))
           dots == {i \in 1..Len(domain) : domain[i] = "."}
       IN  /\ Len(user) <= 64
           /\ Len(domain) <= 254
           /\ DotParts(user, UserChars)
           /\ DotParts(domain, DomainChars)
           /\ dots # {}
           /\ Len(domain) - SetMax(dots) >= 2
           /\ \A i \in (SetMax(dots) + 1)..Len(domain) : domain[i] \in Letters
           /\ \A i \in 1..Len(domain) :
                 domain[i] = "-" =>
                     /\ i > 1 /\ i < Len(domain)
                     /\ domain[i - 1] # "." /\ domain[i + 1] # "."

Lower(c) == IF c = "A" THEN "a" ELSE IF c = "H" THEN "h" ELSE c

\* validator normalizeEmail (all_lowercase), on addresses of no special provider
normalizeEmail(s) == [i \in 1..Len(s) |-> Lower(s[i])]

(***************************************************************************)
(* escapeHtml                                                              *)
(***************************************************************************)
RECURSIVE replaceAll(_, _, _)
\* String.prototype.replaceAll(c, rep) for a one-character pattern c: every
\* occurrence of c becomes rep (computed on the two halves of s, which for a
\* one-character pattern gives the left-to-right result)
replaceAll(s, c, rep) ==
    IF Len(s) = 0 THEN <<>>
    ELSE IF Len(s) = 1 THEN (IF s[1] = c THEN rep ELSE s)
    ELSE replaceAll(SubSeq(s, 1, Len(s) \div 2), c, rep)
         \o replaceAll(SubSeq(s, Len(s) \div 2 + 1, Len(s)), c, rep)

EntAmp == <<"&", "a", "m", "p", ";">>
EntLt == <<"&", "l", "t", ";">>
EntGt == <<"&", "g", "t", ";">>
EntQuot == <<"&", "q", "u", "o", "t", ";">>
EntApos == <<"&", "#", "0", "3", "9", ";">>

\* (mutant) the ampersand replaced last, after the entities were written
escapeHtmlAmpLast(str) ==
    replaceAll(
        replaceAll(
            replaceAll(
                replaceAll(
                    replaceAll(str, "<", EntLt),
                    ">", EntGt),
                "\"", EntQuot),
            "'", EntApos),
        "&", EntAmp)

escapeHtml(str) ==
    replaceAll(
        replaceAll(
            replaceAll(
                replaceAll(
                    replaceAll(str, "&", EntAmp),
                    "<", EntLt),
                ">", EntGt),
            "\"", EntQuot),
        "'", EntApos)

(***************************************************************************)
(* Configuration and constants of the backend                              *)
(***************************************************************************)
\* (mutant) a check that forgets the sender address
RequiredEnvNoSender == {"SMTP_HOST", "SMTP_PORT", "SMTP_USER", "SMTP_PASS", "MAIL_TO"}
RequiredEnv == {"SMTP_HOST", "SMTP_PORT", "SMTP_USER", "SMTP_PASS", "MAIL_TO", "MAIL_FROM"}
AllEnv == RequiredEnv \cup {"SMTP_SECURE"}

\* CORS_ORIGINS.split(",").map(trim), with CORS_ORIGINS at its default
allowed == {"http://localhost:3000"}
\* the Origin header of a request: absent, on the list, not on the list
Origins == {"none", "http://localhost:3000", "http://evil.example"}

windowMs == 60 * 1000
limit == 10

\* the caller identities (req.ip) that send requests
Identities == {"ipA"}
TransportErrors == {"ECONNREFUSED", "EAUTH"}

(***************************************************************************)
(* The validation chains of POST /api/contact                              *)
(***************************************************************************)
FieldNames == <<"name", "email", "subject", "message">>

ValidationError(path, msg) == [type |-> "field", path |-> path, msg |-> msg]

\* body("name").trim().isLength({ min: 2, max: 100 }).withMessage(...)
nameChain(v) ==
    LET t == trim(v) IN
    [value |-> t,
     errs |-> IF isLength(t, 2, 100) THEN <<>>
              ELSE <<ValidationError("name", "Name is required")>>]

\* body("email").isEmail().withMessage(...).normalizeEmail()
emailChain(v) ==
    [value |-> normalizeEmail(v),
     errs |-> IF isEmail(v) THEN <<>>
              ELSE <<ValidationError("email", "Valid email is required")>>]

\* body("subject").trim().isLength({ min: 2, max: 150 }).withMessage(...)
subjectChain(v) ==
    LET t == trim(v) IN
    [value |-> t,
     errs |-> IF isLength(t, 2, 150) THEN <<>>
              ELSE <<ValidationError("subject", "Subject is required")>>]

\* body("message").trim().isLength({ min: 5, max: 5000 }).withMessage(...)
messageChain(v) ==
    LET t == trim(v) IN
    [value |-> t,
     errs |-> IF isLength(t, 5, 5000) THEN <<>>
              ELSE <<ValidationError("message", "Message is required")>>]

\* (mutant) chains that stop at the first field found invalid
runChainsBail(body) ==
    LET n == nameChain(body.name)
        e == emailChain(body.email)
        s == subjectChain(body.subject)
        m == messageChain(body.message)
        all == <<n.errs, e.errs, s.errs, m.errs>>
        bad == {i \in 1..4 : all[i] # <<>>}
    IN  [body |-> [name |-> n.value, email |-> e.value,
                   subject |-> s.value, message |-> m.value],
         errs |-> IF bad = {} THEN <<>> ELSE all[SetMin(bad)]]

\* the four chains run one after the other, every one of them whatever the
\* earlier ones found; each sanitizes its field of req.body and appends its
\* errors to the request's validation context
runChains(body) ==
    LET n == nameChain(body.name)
        e == emailChain(body.email)
        s == subjectChain(body.subject)
        m == messageChain(body.message)
    IN  [body |-> [name |-> n.value, email |-> e.value,
                   subject |-> s.value, message |-> m.value],
         errs |-> n.errs \o e.errs \o s.errs \o m.errs]

(***************************************************************************)
(* The message the handler hands to transporter.sendMail                   *)
(***************************************************************************)
\* the interpolated parts of the html template, in template order
htmlOf(body) ==
    [name |-> escapeHtml(body.name),
     email |-> escapeHtml(body.email),
     subject |-> escapeHtml(body.subject),
     message |-> escapeHtml(body.message)]

\* the interpolated parts of the plain-text template
textOf(body) ==
    [name |-> body.name, email |-> body.email,
     subject |-> body.subject, message |-> body.message]

composeMail(body) ==
    [from |-> "MAIL_FROM", to |-> "MAIL_TO", replyTo |-> body.email,
     subject |-> body.subject, text |-> textOf(body), html |-> htmlOf(body)]

NoMail == [from |-> "none"]

(***************************************************************************)
(* Responses                                                               *)
(***************************************************************************)
SentResponse == [status |-> 200, body |-> [ok |-> TRUE, message |-> "Sent"]]
ValidationResponse(errs) == [status |-> 400, body |-> [ok |-> FALSE, errors |-> errs]]
\* (mutant) a 500 body that carries the transport's error
SendFailedResponseLeaky(err) ==
    [status |-> 500, body |-> [ok |-> FALSE, message |-> err]]
SendFailedResponse(err) ==
    [status |-> 500, body |-> [ok |-> FALSE, message |-> "Failed to send email"]]
\* express-rate-limit's default handler
RateLimitedResponse ==
    [status |-> 429, body |-> [text |-> "Too many requests, please try again later."]]
\* GET /api/health: res.json({ ok: true, env: NODE_ENV })
HealthResponse == [status |-> 200, body |-> [ok |-> TRUE, env |-> "development"]]
\* cb(new Error("CORS not allowed")) ends in express's error handler
CorsResponse == [status |-> 500, body |-> [error |-> "CORS not allowed"]]

(***************************************************************************)
(* Bounds of the model                                                     *)
(***************************************************************************)
MaxInFlight == 2      \* requests being handled at the same time
MaxHits == 11         \* requests counted in one window (the limit is 10)
MaxTicks == 2         \* clock advances

Slots == 1..MaxInFlight
\* the clock advances by half a window
TickMs == windowMs \div 2
MaxClock == MaxTicks * TickMs

NoBody == [name |-> <<>>, email |-> <<>>, subject |-> <<>>, message |-> <<>>]
IdleRequest == [stage |-> "idle", ip |-> "none", raw |-> NoBody, body |-> NoBody]

(***************************************************************************)
(* POST /api/contact, one action per step of the middleware chain between  *)
(* two points where the event loop may run another request                 *)
(***************************************************************************)
\* (mutant) an origin callback that lets every origin through
corsAllowsAny(origin) == TRUE

\* cors(): the origin callback
corsAllows(origin) == origin = "none" \/ origin \in allowed

\* helmet, cors and express.json for a request from ip with parsed body b
Arrive(r, ip, origin, b) ==
    /\ proc = "listening"
    /\ req[r].stage = "idle"
    /\ IF corsAllows(origin)
       THEN /\ req' = [req EXCEPT ![r] = [stage |-> "limiter", ip |-> ip,
                                          raw |-> b, body |-> b]]
            /\ UNCHANGED responses
       ELSE /\ req' = [req EXCEPT ![r] = [stage |-> "done", ip |-> ip,
                                          raw |-> b, body |-> b]]
            /\ responses' = [responses EXCEPT ![r] = <<CorsResponse>>]
    /\ UNCHANGED <<now, hits, resetTime, errors, sendCalls, outcome, mail,
                   seen, passed, passLog, startVars, formVars, fnVars, photoVars>>

\* MemoryStore.increment: a client that is absent or whose window has ended
\* starts a new window; then its totalHits is incremented
\* (mutant) an increment that reads the count, yields, and writes it back:
\* of two requests of one identity at the limiter together, one is lost
hitsAfterLostUpdate(ip) ==
    (IF resetTime[ip] <= now THEN 0 ELSE hits[ip])
    + (IF Cardinality({r \in Slots : req[r].stage = "limiter" /\ req[r].ip = ip}) > 1
       THEN 0 ELSE 1)

windowEnded(ip) == resetTime[ip] <= now
\* MemoryStore.increment: a client that is absent or whose window has ended
\* starts a new window; then its totalHits is incremented
hitsAfter(ip) == (IF windowEnded(ip) THEN 0 ELSE hits[ip]) + 1
resetAfter(ip) == IF windowEnded(ip) THEN now + windowMs ELSE resetTime[ip]

\* (mutant) a test that lets one request more through
exceededOffByOne(totalHits) == totalHits > limit + 1

\* the limiter's test on the incremented count
exceeded(totalHits) == totalHits > limit

\* the rateLimit middleware: increment, then reject or call next()
RateLimitStep(r) ==
    /\ req[r].stage = "limiter"
    /\ hitsAfter(req[r].ip) <= MaxHits
    /\ hits' = [hits EXCEPT ![req[r].ip] = hitsAfter(req[r].ip)]
    /\ resetTime' = [resetTime EXCEPT ![req[r].ip] = resetAfter(req[r].ip)]
    /\ IF exceeded(hitsAfter(req[r].ip))
       THEN /\ req' = [req EXCEPT ![r].stage = "done"]
            /\ responses' = [responses EXCEPT ![r] = Append(@, RateLimitedResponse)]
       ELSE /\ req' = [req EXCEPT ![r].stage = "validate"]
            /\ UNCHANGED responses
    /\ seen' = [seen EXCEPT ![req[r].ip] =
                   (IF resetTime[req[r].ip] <= now THEN 0 ELSE @) + 1]
    /\ passed' = [passed EXCEPT ![req[r].ip] =
                   (IF resetTime[req[r].ip] <= now THEN 0 ELSE @)
                   + (IF req'[r].stage = "validate" THEN 1 ELSE 0)]
    /\ UNCHANGED <<now, errors, sendCalls, outcome, mail, startVars, formVars, fnVars, photoVars>>

RateLimit(r) == RateLimitStep(r) /\ UNCHANGED passLog

\* the same step, keeping the times of the requests let through during the
\* last windowMs
RateLimitLogged(r) ==
    /\ RateLimitStep(r)
    /\ passLog' = [passLog EXCEPT ![req[r].ip] =
            IF req'[r].stage = "validate"
            THEN Append(SelectSeq(@, LAMBDA t : t > now - windowMs), now)
            ELSE @]

\* the validation chains
Validate(r) ==
    /\ req[r].stage = "validate"
    /\ req' = [req EXCEPT ![r].stage = "handler",
                          ![r].body = runChains(req[r].body).body]
    /\ errors' = [errors EXCEPT ![r] = runChains(req[r].body).errs]
    /\ UNCHANGED <<now, hits, resetTime, sendCalls, outcome, mail, responses,
                   seen, passed, passLog, startVars, formVars, fnVars, photoVars>>

\* (mutant) a handler that does not look at validationResult
HandlerIgnoresErrors(r) ==
    /\ req[r].stage = "handler"
    /\ req' = [req EXCEPT ![r].stage = "sending"]
    /\ mail' = [mail EXCEPT ![r] = composeMail(req[r].body)]
    /\ sendCalls' = [sendCalls EXCEPT ![r] = @ + 1]
    /\ outcome' = [outcome EXCEPT ![r] = "pending"]
    /\ UNCHANGED <<now, hits, resetTime, errors, responses, seen, passed,
                   passLog, startVars, formVars, fnVars, photoVars>>

\* (mutant) a limiter set up with skipFailedRequests: the hit of a request
\* answered 400 is taken back
HandlerSkipFailed(r) ==
    /\ req[r].stage = "handler"
    /\ IF errors[r] # <<>>
       THEN /\ req' = [req EXCEPT ![r].stage = "done"]
            /\ responses' = [responses EXCEPT ![r] = Append(@, ValidationResponse(errors[r]))]
            /\ hits' = [hits EXCEPT ![req[r].ip] = IF @ > 0 THEN @ - 1 ELSE 0]
            /\ UNCHANGED <<sendCalls, outcome, mail>>
       ELSE /\ req' = [req EXCEPT ![r].stage = "sending"]
            /\ mail' = [mail EXCEPT ![r] = composeMail(req[r].body)]
            /\ sendCalls' = [sendCalls EXCEPT ![r] = @ + 1]
            /\ outcome' = [outcome EXCEPT ![r] = "pending"]
            /\ UNCHANGED <<responses, hits>>
    /\ UNCHANGED <<now, resetTime, errors, seen, passed, passLog,
                   startVars, formVars, fnVars, photoVars>>

\* the route handler up to its await: 400 on validation errors, else compose
\* the message and call transporter.sendMail
Handler(r) ==
    /\ req[r].stage = "handler"
    /\ IF errors[r] # <<>>
       THEN /\ req' = [req EXCEPT ![r].stage = "done"]
            /\ responses' = [responses EXCEPT ![r] = Append(@, ValidationResponse(errors[r]))]
            /\ UNCHANGED <<sendCalls, outcome, mail>>
       ELSE /\ req' = [req EXCEPT ![r].stage = "sending"]
            /\ mail' = [mail EXCEPT ![r] = composeMail(req[r].body)]
            /\ sendCalls' = [sendCalls EXCEPT ![r] = @ + 1]
            /\ outcome' = [outcome EXCEPT ![r] = "pending"]
            /\ UNCHANGED responses
    /\ UNCHANGED <<now, hits, resetTime, errors, seen, passed, passLog,
                   startVars, formVars, fnVars, photoVars>>

\* (mutant) a handler that calls sendMail once more when it threw
SendSettleRetry(r, o) ==
    /\ req[r].stage = "sending"
    /\ IF o # "resolved" /\ sendCalls[r] < 2
       THEN /\ sendCalls' = [sendCalls EXCEPT ![r] = @ + 1]
            /\ UNCHANGED <<outcome, req, responses>>
       ELSE /\ outcome' = [outcome EXCEPT ![r] = o]
            /\ req' = [req EXCEPT ![r].stage = "done"]
            /\ responses' = [responses EXCEPT ![r] =
                    Append(@, IF o = "resolved" THEN SentResponse ELSE SendFailedResponse(o))]
            /\ UNCHANGED sendCalls
    /\ UNCHANGED <<now, hits, resetTime, errors, mail, seen, passed,
                   passLog, startVars, formVars, fnVars, photoVars>>

\* the handler after its await: sendMail resolved (o = "resolved") or threw o
SendSettle(r, o) ==
    /\ req[r].stage = "sending"
    /\ outcome' = [outcome EXCEPT ![r] = o]
    /\ req' = [req EXCEPT ![r].stage = "done"]
    /\ responses' = [responses EXCEPT ![r] =
            Append(@, IF o = "resolved" THEN SentResponse ELSE SendFailedResponse(o))]
    /\ UNCHANGED <<now, hits, resetTime, errors, sendCalls, mail, seen, passed,
                   passLog, startVars, formVars, fnVars, photoVars>>

\* the response has been written and the request is over
Release(r) ==
    /\ req[r].stage = "done"
    /\ req' = [req EXCEPT ![r] = IdleRequest]
    /\ errors' = [errors EXCEPT ![r] = <<>>]
    /\ sendCalls' = [sendCalls EXCEPT ![r] = 0]
    /\ outcome' = [outcome EXCEPT ![r] = "none"]
    /\ mail' = [mail EXCEPT ![r] = NoMail]
    /\ responses' = [responses EXCEPT ![r] = <<>>]
    /\ UNCHANGED <<now, hits, resetTime, seen, passed, passLog, startVars, formVars, fnVars, photoVars>>

\* GET /api/health: helmet, cors and express.json run, the rate limiter is
\* mounted on /api/contact and does not, and the route answers at once
Health(r, ip, origin) ==
    /\ proc = "listening"
    /\ req[r].stage = "idle"
    /\ req' = [req EXCEPT ![r] = [stage |-> "done", ip |-> ip,
                                  raw |-> NoBody, body |-> NoBody]]
    /\ responses' = [responses EXCEPT ![r] =
            <<IF corsAllows(origin) THEN HealthResponse ELSE CorsResponse>>]
    /\ UNCHANGED <<now, hits, resetTime, errors, sendCalls, outcome, mail,
                   seen, passed, passLog, startVars, formVars, fnVars, photoVars>>

\* time passes
Tick ==
    /\ now + TickMs <= MaxClock
    /\ now' = now + TickMs
    /\ UNCHANGED <<hits, resetTime, req, errors, sendCalls, outcome, mail,
                   responses, seen, passed, passLog, startVars, formVars, fnVars, photoVars>>

(***************************************************************************)
(* Request bodies                                                          *)
(***************************************************************************)
\* name "Al", email "a@b.com", subject "Hi", message "hello!", the name and
\* the address as a browser user may type them
GoodBody ==
    [name |-> <<" ", "A", "l", " ">>,
     email |-> <<"A", "@", "b", ".", "c", "o", "m">>,
     subject |-> <<"H", "i">>,
     message |-> <<"h", "e", "l", "l", "o", "!">>]
\* email "not-an-email"
BadEmailBody ==
    [GoodBody EXCEPT !.email = <<"n", "o", "t", "-", "a", "n", "-", "e", "m", "a", "i", "l">>]
\* every field violates its constraint
AllBadBody ==
    [name |-> <<"A">>, email |-> <<"a", "@", "b">>, subject |-> <<" ", " ">>,
     message |-> <<"h", "e", "y", " ">>]
SampleBodies == {GoodBody, BadEmailBody}

(***************************************************************************)
(* The profile photo: IndexedDB helpers and the controller in Portfolio    *)
(***************************************************************************)
MaxOps == 2           \* uploads and removals started in one page life

\* operation 0 is the mount effect's load; the others are started by the user
UserOps == 1..MaxOps
OpIds == 0..MaxOps

\* the files a user may pick: one that decodes and one that is no image
Files == {"photo.png", "notes.txt"}
Keys == {"profilePic"} \cup Files

Absent == <<"undefined">>          \* no entry under the key
NullBlob == <<"null">>             \* canvas.toBlob gave null
BlobOf(o) == <<"image/jpeg", o>>   \* the blob operation o encoded
Blobs == {BlobOf(o) : o \in UserOps}

defaultProfile == <<"profile.jpg">>   \* the bundled image
NullRef == <<"null">>
BlobUrl(o) == <<"blob:", o>>          \* URL.createObjectURL(blob) in operation o
FileUrl(o) == <<"file:", o>>          \* URL.createObjectURL(file) in fileToImage

LoadErrorText == <<"Couldn't load saved photo.">>
SaveErrorText == <<"Failed to save image. Try another image (preferably under ~5MB).">>
NoError == <<"">>

\* values a caller may hand to idbSet besides a blob
Zero == <<"number", 0>>
Values == {BlobOf(1), NullBlob, Zero}

\* the values JavaScript's || treats as false
falsy(v) == v \in {Absent, NullBlob, Zero}

NoOp == [kind |-> "none", pc |-> "idle", file |-> "none", key |-> "none",
         blob |-> NullBlob, got |-> NullBlob, env |-> "none", result |-> "none"]

\* a variant that keeps one entry per picked file
photoKeyPerFile(file) == file

\* the key handlePhotoPick stores the blob under
photoKey(file) == "profilePic"

PhotoIdle ==
    /\ idb = [k \in Keys |-> Absent]
    /\ txQueue = <<>>
    /\ openConns = 0
    /\ mounted = FALSE
    /\ profilePicUrl = defaultProfile
    /\ photoError = NoError
    /\ lastObjectUrlRef = NullRef
    /\ liveUrls = {}
    /\ ops = [o \in OpIds |-> NoOp]

\* an operation stands between URL.createObjectURL(blob) and the statements
\* that follow it; nothing else runs until it has returned to the event loop
Running == \E o \in OpIds : ops[o].pc = "minted"

\* if (lastObjectUrlRef.current) URL.revokeObjectURL(lastObjectUrlRef.current)
RevokeLast == IF lastObjectUrlRef # NullRef THEN {lastObjectUrlRef} ELSE {}

\* const url = URL.createObjectURL(blob), for the blob b the operation holds
MintUrl(o, b) ==
    /\ liveUrls' = liveUrls \cup {BlobUrl(o)}
    /\ ops' = [ops EXCEPT ![o].pc = "minted", ![o].blob = b, ![o].got = b,
                          ![o].env = "complete"]
    /\ UNCHANGED <<profilePicUrl, photoError, lastObjectUrlRef>>

Finish(o, res) == ops' = [ops EXCEPT ![o].pc = "done", ![o].result = res]

\* (mutant) the same statements without lastObjectUrlRef.current = url
ShowBlobKeepsRef(o) ==
    /\ ops[o].pc = "minted"
    /\ liveUrls' = liveUrls \ RevokeLast
    /\ profilePicUrl' = BlobUrl(o)
    /\ Finish(o, "ok")
    /\ UNCHANGED <<idb, txQueue, openConns, mounted, photoError, lastObjectUrlRef,
                   serverVars, startVars, formVars, fnVars>>

\* the statements after createObjectURL: revoke the last URL,
\* lastObjectUrlRef.current = url, setProfilePicUrl(url)
ShowBlob(o) ==
    /\ ops[o].pc = "minted"
    /\ liveUrls' = liveUrls \ RevokeLast
    /\ lastObjectUrlRef' = BlobUrl(o)
    /\ profilePicUrl' = BlobUrl(o)
    /\ Finish(o, "ok")
    /\ UNCHANGED <<idb, txQueue, openConns, mounted, photoError,
                   serverVars, startVars, formVars, fnVars>>

\* the page is opened: the component mounts with its initial state and the
\* effect calls idbGet("profilePic"), which calls openDB
Mount ==
    /\ ~mounted
    /\ ops[0].kind = "none"
    /\ mounted' = TRUE
    /\ ops' = [ops EXCEPT ![0] = [NoOp EXCEPT !.kind = "mount", !.pc = "open",
                                              !.key = "profilePic"]]
    /\ UNCHANGED <<idb, txQueue, openConns, profilePicUrl, photoError,
                   lastObjectUrlRef, liveUrls, serverVars, startVars, formVars, fnVars>>

\* the effect's cleanup
Unmount ==
    /\ mounted
    /\ ~Running
    /\ mounted' = FALSE
    /\ liveUrls' = liveUrls \ RevokeLast
    /\ UNCHANGED <<idb, txQueue, openConns, profilePicUrl, photoError,
                   lastObjectUrlRef, ops, serverVars, startVars, formVars, fnVars>>

\* the file input's onChange: handlePhotoPick(file) up to its first await,
\* inside fileToImage
StartUpload(o, file) ==
    /\ mounted
    /\ ~Running
    /\ ops[o].kind = "none"
    /\ \A q \in UserOps : q < o => ops[q].kind # "none"
    /\ photoError' = NoError
    /\ liveUrls' = liveUrls \cup {FileUrl(o)}
    /\ ops' = [ops EXCEPT ![o] = [NoOp EXCEPT !.kind = "upload", !.pc = "decode",
                                              !.file = file,
                                              !.key = photoKey(file)]]
    /\ UNCHANGED <<idb, txQueue, openConns, mounted, profilePicUrl,
                   lastObjectUrlRef, serverVars, startVars, formVars, fnVars>>

\* img.onload / img.onerror; after onload drawToCanvas and canvas.toBlob
DecodeSettle(o) ==
    /\ ops[o].kind = "upload" /\ ops[o].pc = "decode"
    /\ ~Running
    /\ liveUrls' = liveUrls \ {FileUrl(o)}
    /\ IF ops[o].file = "photo.png"
       THEN /\ ops' = [ops EXCEPT ![o].pc = "encode"]
            /\ UNCHANGED photoError
       ELSE /\ Finish(o, "error")
            /\ photoError' = SaveErrorText
    /\ UNCHANGED <<idb, txQueue, openConns, mounted, profilePicUrl,
                   lastObjectUrlRef, serverVars, startVars, formVars, fnVars>>

\* the toBlob callback with blob b (null when the canvas cannot be encoded),
\* then idbSet("profilePic", blob) up to its await of openDB
EncodeSettle(o, b) ==
    /\ ops[o].kind = "upload" /\ ops[o].pc = "encode"
    /\ ~Running
    /\ ops' = [ops EXCEPT ![o].pc = "open", ![o].blob = b]
    /\ UNCHANGED <<idb, txQueue, openConns, mounted, profilePicUrl, photoError,
                   lastObjectUrlRef, liveUrls, serverVars, startVars, formVars, fnVars>>

\* the condition under which the "Remove photo" button is rendered
RemoveOffered == profilePicUrl # defaultProfile

\* the "Remove photo" button: removePhoto up to its await of openDB
StartRemove(o) ==
    /\ mounted
    /\ ~Running
    /\ RemoveOffered
    /\ ops[o].kind = "none"
    /\ \A q \in UserOps : q < o => ops[q].kind # "none"
    /\ ops' = [ops EXCEPT ![o] = [NoOp EXCEPT !.kind = "remove", !.pc = "open",
                                              !.key = "profilePic"]]
    /\ UNCHANGED <<idb, txQueue, openConns, mounted, profilePicUrl, photoError,
                   lastObjectUrlRef, liveUrls, serverVars, startVars, formVars, fnVars>>

\* the IndexedDB request each helper and each caller of a helper makes
helper(kind) ==
    CASE kind \in {"mount", "idbGet"} -> "get"
      [] kind \in {"upload", "idbSet"} -> "put"
      [] kind \in {"remove", "idbDelete"} -> "delete"

PhotoKinds == {"mount", "upload", "remove"}
HelperKinds == {"idbSet", "idbGet", "idbDelete"}

\* a variant that forgets the URL without revoking it
AfterDeleteKeepsUrl ==
    /\ lastObjectUrlRef' = NullRef
    /\ profilePicUrl' = defaultProfile
    /\ UNCHANGED <<photoError, liveUrls>>

\* removePhoto after its try block, whether or not idbDelete succeeded:
\* revoke the URL in lastObjectUrlRef and null the ref, then
\* setProfilePicUrl(defaultProfile)
AfterDelete ==
    /\ liveUrls' = liveUrls \ RevokeLast
    /\ lastObjectUrlRef' = NullRef
    /\ profilePicUrl' = defaultProfile
    /\ UNCHANGED photoError

\* what the caller of a helper does when the helper rejects: the catch
\* blocks, and for removePhoto the statements after its empty catch
OnReject(o) ==
    CASE ops[o].kind = "mount" ->
            /\ photoError' = LoadErrorText
            /\ UNCHANGED <<profilePicUrl, lastObjectUrlRef, liveUrls>>
      [] ops[o].kind = "upload" ->
            /\ photoError' = SaveErrorText
            /\ UNCHANGED <<profilePicUrl, lastObjectUrlRef, liveUrls>>
      [] ops[o].kind = "remove" -> AfterDelete
      [] OTHER ->
            UNCHANGED <<profilePicUrl, photoError, lastObjectUrlRef, liveUrls>>

\* the operation's promise has settled and its caller has run to its end
Settle(o, ev, res, v) ==
    ops' = [ops EXCEPT ![o].pc = "done", ![o].env = ev, ![o].result = res,
                       ![o].got = v]

\* openDB: req.onsuccess (the connection is open and the helper starts its
\* transaction) or req.onerror (the helper rejects)
OpenSettle(o, ok) ==
    /\ ops[o].pc = "open"
    /\ ~Running
    /\ IF ok
       THEN /\ openConns' = openConns + 1
            /\ txQueue' = Append(txQueue, o)
            /\ ops' = [ops EXCEPT ![o].pc = "tx"]
            /\ UNCHANGED <<profilePicUrl, photoError, lastObjectUrlRef, liveUrls>>
       ELSE /\ OnReject(o)
            /\ Settle(o, "openError",
                      IF ops[o].kind = "remove" THEN "ok" ELSE "error", NullBlob)
            /\ UNCHANGED <<openConns, txQueue>>
    /\ UNCHANGED <<idb, mounted, serverVars, startVars, formVars, fnVars>>

\* a variant of put that keeps an entry the key already has
putIfAbsent(store, key, value) ==
    IF store[key] = Absent THEN [store EXCEPT ![key] = value] ELSE store

\* a variant in which a write over an entry leaves a mixture of the two
putMerging(store, key, value) ==
    IF store[key] \in Blobs THEN [store EXCEPT ![key] = <<"merged">>]
    ELSE [store EXCEPT ![key] = value]

\* objectStore.put(value, key)
putInto(store, key, value) == [store EXCEPT ![key] = value]

\* objectStore.delete(key)
deleteFrom(store, key) == [store EXCEPT ![key] = Absent]

\* a variant in which a request for a key without an entry fails
requestEventMissingFails(h, key) ==
    IF h \in {"get", "delete"} /\ idb[key] = Absent THEN "error" ELSE "success"

\* the event a get, put or delete request fires when the storage works:
\* success, whether or not the key has an entry
requestEvent(h, key) == "success"

\* a variant that finds nothing
getResultNothing(key) == NullBlob

\* the value idbGet resolves with: req.result || null
getResult(key) == IF falsy(idb[key]) THEN NullBlob ELSE idb[key]

TxOutcomes == {"complete", "error", "abort"}

\* how the helper's promise ends when its transaction ends with outcome ev:
\* idbGet listens to its request (onsuccess, onerror; an abort fails the
\* request), idbSet and idbDelete to tx.oncomplete and tx.onerror only, so
\* that a transaction that aborts without a failed request leaves them
\* pending
promiseAfter(h, ev) ==
    CASE ev = "complete" -> "resolved"
      [] ev = "error" -> "rejected"
      [] ev = "abort" -> IF h = "get" THEN "rejected" ELSE "pending"

\* the store after the transaction of helper h on key with value v
storeAfter(h, ev, key, v) ==
    CASE ev # "complete" -> idb
      [] ev = "complete" /\ h = "put" -> putInto(idb, key, v)
      [] ev = "complete" /\ h = "delete" -> deleteFrom(idb, key)
      [] ev = "complete" /\ h = "get" -> idb

\* the oldest transaction ends with the outcome the storage gives it; the
\* helper's promise settles accordingly and the rest of its caller runs, up
\* to and including URL.createObjectURL
TxSettle(o, end) ==
    /\ ops[o].pc = "tx"
    /\ ~Running
    /\ txQueue # <<>> /\ Head(txQueue) = o
    /\ txQueue' = Tail(txQueue)
    /\ LET kind == ops[o].kind
           h == helper(kind)
           k == ops[o].key
           ev == IF end = "complete" /\ requestEvent(h, k) = "error"
                 THEN "error" ELSE end
           p == promiseAfter(h, ev)
           page == <<profilePicUrl, photoError, lastObjectUrlRef, liveUrls>>
       IN  /\ idb' = storeAfter(h, ev, k, ops[o].blob)
           /\ CASE p = "pending" ->
                     /\ ops' = [ops EXCEPT ![o].pc = "hung", ![o].env = end]
                     /\ UNCHANGED page
                [] p = "rejected" ->
                     /\ OnReject(o)
                     /\ Settle(o, end, IF kind = "remove" THEN "ok" ELSE "error",
                               NullBlob)
                [] p = "resolved" /\ kind \in HelperKinds ->
                     /\ Settle(o, end, "ok",
                               IF h = "get" THEN getResult(k) ELSE NullBlob)
                     /\ UNCHANGED page
                [] p = "resolved" /\ kind = "mount" ->
                     IF getResult(k) # NullBlob
                     THEN MintUrl(o, getResult(k))
                     ELSE /\ Settle(o, end, "ok", NullBlob)
                          /\ UNCHANGED page
                [] p = "resolved" /\ kind = "upload" ->
                     IF ops[o].blob # NullBlob
                     THEN MintUrl(o, ops[o].blob)
                     ELSE /\ photoError' = SaveErrorText
                          /\ Settle(o, end, "error", NullBlob)
                          /\ UNCHANGED <<profilePicUrl, lastObjectUrlRef, liveUrls>>
                [] p = "resolved" /\ kind = "remove" ->
                     /\ OnReject(o)
                     /\ Settle(o, end, "ok", NullBlob)
    /\ UNCHANGED <<openConns, mounted, serverVars, startVars, formVars, fnVars>>

\* a call of idbSet, idbGet or idbDelete by itself, up to its await of openDB
StoreCall(o, kind, key, v) ==
    /\ ~mounted
    /\ ops[o].kind = "none"
    /\ \A q \in OpIds : ops[q].pc \in {"idle", "done", "hung"}
    /\ \A q \in OpIds : (0 < q /\ q < o) => ops[q].kind # "none"
    /\ ops' = [ops EXCEPT ![o] = [NoOp EXCEPT !.kind = kind, !.pc = "open",
                                              !.key = key, !.blob = v]]
    /\ UNCHANGED <<idb, txQueue, openConns, mounted, profilePicUrl, photoError,
                   lastObjectUrlRef, liveUrls, serverVars, startVars, formVars, fnVars>>

(***************************************************************************)
(* The backend, listening                                                  *)
(***************************************************************************)
FnIdle == /\ fnIn = <<>> /\ fnOut = <<>> /\ fnPc = "off"

(***************************************************************************)
(* The contact form: handleInputChange and handleSubmit                    *)
(***************************************************************************)
MaxSubmits == 2       \* handleSubmit calls in one behaviour
Calls == 1..MaxSubmits

FormFields == {"name", "email", "subject", "message"}
\* what a field may hold
Texts == {"", "hi"}
EmptyForm == [f \in FormFields |-> ""]

\* JavaScript values of data.ok
JsTrue == <<"boolean", "true">>
JsFalse == <<"boolean", "false">>
One == <<"number", 1>>
OkValues == {JsTrue, JsFalse, One, Absent}
\* !v
isFalsy(v) == falsy(v) \/ v = JsFalse

\* what JSON.parse makes of a response body: null, or an object with or
\* without an "ok" member
NullData == [type |-> "null", ok |-> Absent]
\* a body that is not JSON (the limiter's text, a proxy's error page)
TextBody == [json |-> FALSE, data |-> NullData]
Bodies ==
    {TextBody, [json |-> TRUE, data |-> NullData]}
    \cup {[json |-> TRUE, data |-> [type |-> "object", ok |-> v]] : v \in OkValues}
\* the responses fetch may resolve with: a 2xx and a status outside 2xx
FetchResponses == [status : {200, 429}, body : Bodies]
NoResponse == [status |-> 0, body |-> TextBody]

NoCall == [pc |-> "none", sent |-> EmptyForm, net |-> "none", res |-> NoResponse]

\* Response.ok
resOk(status) == status >= 200 /\ status <= 299

\* (mutant) a button that is never disabled
SubmitDisabledNever == FALSE

\* the submit button's disabled={isSubmitting}
SubmitDisabled == isSubmitting

\* the inputs' required attribute: the browser submits no form with an
\* empty field
FormValid == \A f \in FormFields : formData[f] # ""

\* an input's onChange
handleInputChange(f, v) ==
    /\ formData' = [formData EXCEPT ![f] = v]
    /\ UNCHANGED <<isSubmitting, submitStatus, calls, serverVars, startVars,
                   fnVars, photoVars>>

\* the form's onSubmit: handleSubmit up to its await of fetch
Submit(c) ==
    /\ ~SubmitDisabled
    /\ FormValid
    /\ calls[c].pc = "none"
    /\ \A q \in Calls : q < c => calls[q].pc # "none"
    /\ isSubmitting' = TRUE
    /\ submitStatus' = ""
    /\ calls' = [calls EXCEPT ![c] = [NoCall EXCEPT !.pc = "fetch", !.sent = formData,
                                                   !.net = "pending"]]
    /\ UNCHANGED <<formData, serverVars, startVars, fnVars, photoVars>>

\* the catch block and the finally block
Catch(c) ==
    /\ submitStatus' = "error"
    /\ isSubmitting' = FALSE
    /\ UNCHANGED formData

\* fetch settles: it rejects on a network failure (net = "failed"), else it
\* resolves with the response r, and handleSubmit awaits res.json()
FetchSettle(c, net, r) ==
    /\ calls[c].pc = "fetch"
    /\ IF net = "failed"
       THEN /\ calls' = [calls EXCEPT ![c].pc = "done", ![c].net = "failed"]
            /\ Catch(c)
       ELSE /\ calls' = [calls EXCEPT ![c].pc = "json", ![c].net = "response",
                                      ![c].res = r]
            /\ UNCHANGED <<formData, isSubmitting, submitStatus>>
    /\ UNCHANGED <<serverVars, startVars, fnVars, photoVars>>

\* (mutant) a test that looks at the body only
throwsIgnoringStatus(r) ==
    IF r.body.data.type = "null" THEN TRUE ELSE isFalsy(r.body.data.ok)

\* the statements after `const data = await res.json()` throw:
\* !res.ok || !data.ok, where data.ok on null is a TypeError
throws(r) ==
    IF ~resOk(r.status) THEN TRUE
    ELSE IF r.body.data.type = "null" THEN TRUE
    ELSE isFalsy(r.body.data.ok)

\* res.json() settles: it rejects when the body is not JSON; then the test,
\* the two setters, or the catch block, and the finally block
JsonSettle(c) ==
    /\ calls[c].pc = "json"
    /\ calls' = [calls EXCEPT ![c].pc = "done"]
    /\ IF ~calls[c].res.body.json \/ throws(calls[c].res)
       THEN Catch(c)
       ELSE /\ submitStatus' = "success"
            /\ formData' = EmptyForm
            /\ isSubmitting' = FALSE
    /\ UNCHANGED <<serverVars, startVars, fnVars, photoVars>>

\* the contact form as first rendered
FormIdle ==
    /\ formData = EmptyForm
    /\ isSubmitting = FALSE
    /\ submitStatus = ""
    /\ calls = [c \in Calls |-> NoCall]

ServerInit ==
    /\ now = 0
    /\ hits = [ip \in Identities |-> 0]
    /\ resetTime = [ip \in Identities |-> 0]
    /\ req = [r \in Slots |-> IdleRequest]
    /\ errors = [r \in Slots |-> <<>>]
    /\ sendCalls = [r \in Slots |-> 0]
    /\ outcome = [r \in Slots |-> "none"]
    /\ mail = [r \in Slots |-> NoMail]
    /\ responses = [r \in Slots |-> <<>>]
    /\ seen = [ip \in Identities |-> 0]
    /\ passed = [ip \in Identities |-> 0]
    /\ passLog = [ip \in Identities |-> <<>>]

Init ==
    /\ env = AllEnv
    /\ proc = "listening"
    /\ ServerInit
    /\ FormIdle
    /\ FnIdle
    /\ PhotoIdle

Next ==
    \/ \E r \in Slots, ip \in Identities, o \in Origins, b \in SampleBodies :
           Arrive(r, ip, o, b)
    \/ \E r \in Slots : RateLimit(r)
    \/ \E r \in Slots : Validate(r)
    \/ \E r \in Slots : Handler(r)
    \/ \E r \in Slots, o \in {"resolved"} \cup TransportErrors : SendSettle(r, o)
    \/ \E r \in Slots : Release(r)
    \/ Tick

Spec == Init /\ [][Next]_vars

(***************************************************************************)
(* The backend serving one request at a time, with the times of the        *)
(* requests the limiter let through kept in passLog                        *)
(***************************************************************************)
NextRolling ==
    \/ \E ip \in Identities, o \in Origins, b \in SampleBodies : Arrive(1, ip, o, b)
    \/ RateLimitLogged(1)
    \/ Validate(1)
    \/ Handler(1)
    \/ \E o \in {"resolved"} \cup TransportErrors : SendSettle(1, o)
    \/ Release(1)
    \/ Tick

\* one client whose requests are handled one after the other while the mail
\* transport is down: every request the limiter lets through is answered
\* 400 or 500
NextOutage ==
    \/ \E ip \in Identities, o \in Origins, b \in SampleBodies : Arrive(1, ip, o, b)
    \/ RateLimit(1)
    \/ Validate(1)
    \/ Handler(1)
    \/ \E o \in TransportErrors : SendSettle(1, o)
    \/ Release(1)
    \/ \E ip \in Identities, o \in Origins : Health(1, ip, o)
    \/ Tick

SpecOutage == Init /\ [][NextOutage]_vars

\* the visitor and the network acting on the contact form
NextSubmit ==
    \/ \E f \in FormFields, v \in Texts : handleInputChange(f, v)
    \/ \E c \in Calls : Submit(c)
    \/ \E c \in Calls, r \in FetchResponses : FetchSettle(c, "response", r)
    \/ \E c \in Calls : FetchSettle(c, "failed", NoResponse)
    \/ \E c \in Calls : JsonSettle(c)

\* every request settles, and a settled promise's continuation runs
SubmitFairness ==
    \A c \in Calls :
        /\ WF_vars(\E r \in FetchResponses : FetchSettle(c, "response", r))
        /\ WF_vars(JsonSettle(c))

SpecSubmit == Init /\ [][NextSubmit]_vars /\ SubmitFairness

SpecRolling == Init /\ [][NextRolling]_vars

(***************************************************************************)
(* One request with field values at and around the limits of the chains    *)
(***************************************************************************)
Word(n) == Rep("a", n)
\* s as typed with blanks around it
Padded(s) == <<" ">> \o s \o <<" ", " ">>

\* name "Al", email "a@b.com", subject "Hi", message "hello!"
ExampleBody ==
    [name |-> <<"A", "l">>,
     email |-> <<"a", "@", "b", ".", "c", "o", "m">>,
     subject |-> <<"H", "i">>,
     message |-> <<"h", "e", "l", "l", "o", "!">>]

NameValues ==
    {ExampleBody.name, Word(1), Word(2), Word(100), Word(101),
     Padded(Word(1)), Padded(Word(100))}
EmailValues ==
    {ExampleBody.email, BadEmailBody.email, AllBadBody.email,
     <<" ">> \o ExampleBody.email}
SubjectValues ==
    {ExampleBody.subject, Word(1), Word(150), Word(151),
     Padded(Word(1)), Padded(Word(150))}
MessageValues ==
    {ExampleBody.message, Word(4), Word(5), Word(5000), Word(5001),
     Padded(Word(4)), Padded(Word(5000))}
FieldBodies ==
    {AllBadBody} \cup
    {[name |-> n, email |-> e, subject |-> s, message |-> m] :
        n \in NameValues, e \in EmailValues, s \in SubjectValues, m \in MessageValues}

\* the first request the process gets, alone
FirstRequest(bodies) ==
    \E b \in bodies :
        /\ \A ip \in Identities : seen[ip] = 0
        /\ Arrive(1, "ipA", "none", b)

NextFields ==
    \/ FirstRequest(FieldBodies)
    \/ RateLimit(1)
    \/ Validate(1)
    \/ Handler(1)
    \/ \E o \in {"resolved"} \cup TransportErrors : SendSettle(1, o)
    \/ Release(1)

SpecFields == Init /\ [][NextFields]_vars

(***************************************************************************)
(* escapeHtml on its own, and inside the handler of one request            *)
(***************************************************************************)
MaxStrLen == 4        \* length of the strings escapeHtml is applied to
MaxFieldLen == 3      \* length of the strings put into a request's fields

EscAlphabet == {"&", "<", ">", "\"", "'", "l", "t", ";"}
StringsUpTo(n) == UNION {[1..k -> EscAlphabet] : k \in 0..n}

\* requests that carry s in their fields
EscapeBodies(s) ==
    {[ExampleBody EXCEPT !.name = s, !.subject = s, !.message = s \o s],
     [ExampleBody EXCEPT !.email = s \o <<"@", "b", ".", "c", "o", "m">>]}

EscapeInit ==
    /\ env = AllEnv
    /\ proc = "listening"
    /\ ServerInit
    /\ FormIdle
    /\ fnIn \in StringsUpTo(MaxStrLen)
    /\ fnOut = <<>>
    /\ fnPc = "in"
    /\ PhotoIdle

EscapeApply ==
    /\ fnPc = "in"
    /\ fnOut' = escapeHtml(fnIn)
    /\ fnPc' = "out"
    /\ UNCHANGED <<fnIn, serverVars, startVars, formVars, photoVars>>

NextEscape ==
    \/ EscapeApply
    \/ (fnPc = "out" /\ Len(fnIn) <= MaxFieldLen /\ FirstRequest(EscapeBodies(fnIn)))
    \/ RateLimit(1)
    \/ Validate(1)
    \/ Handler(1)
    \/ SendSettle(1, "resolved")
    \/ Release(1)

SpecEscape == EscapeInit /\ [][NextEscape]_vars

(***************************************************************************)
(* Startup                                                                 *)
(***************************************************************************)
\* if (!SMTP_HOST || ... || !MAIL_FROM) process.exit(1)
CheckEnv ==
    /\ proc = "boot"
    /\ proc' = IF RequiredEnv \subseteq env THEN "configured" ELSE "exited"
    /\ UNCHANGED <<env, serverVars, fnVars, photoVars, formVars>>

\* express(), the middleware, the transport, the routes, then app.listen
Listen ==
    /\ proc = "configured"
    /\ proc' = "listening"
    /\ UNCHANGED <<env, serverVars, fnVars, photoVars, formVars>>

StartupInit ==
    /\ env \in SUBSET AllEnv
    /\ proc = "boot"
    /\ ServerInit
    /\ FormIdle
    /\ FnIdle
    /\ PhotoIdle

NextStartup ==
    \/ CheckEnv
    \/ Listen
    \/ FirstRequest(SampleBodies)
    \/ RateLimit(1)
    \/ Validate(1)
    \/ Handler(1)
    \/ \E o \in {"resolved"} \cup TransportErrors : SendSettle(1, o)
    \/ Release(1)

SpecStartup == StartupInit /\ [][NextStartup]_vars

(***************************************************************************)
(* The page in the browser                                                 *)
(***************************************************************************)
\* the browser with the page closed; the store may hold a photo of an
\* earlier visit
PhotoInit ==
    /\ env = AllEnv
    /\ proc = "listening"
    /\ ServerInit
    /\ FormIdle
    /\ FnIdle
    /\ idb \in {[k \in Keys |-> IF k = "profilePic" THEN v ELSE Absent] :
                   v \in {Absent, BlobOf(0)}}
    /\ txQueue = <<>>
    /\ openConns = 0
    /\ mounted = FALSE
    /\ profilePicUrl = defaultProfile
    /\ photoError = NoError
    /\ lastObjectUrlRef = NullRef
    /\ liveUrls = {}
    /\ ops = [o \in OpIds |-> NoOp]

NextPhoto ==
    \/ Mount
    \/ Unmount
    \/ \E o \in UserOps, f \in Files : StartUpload(o, f)
    \/ \E o \in UserOps : DecodeSettle(o)
    \/ \E o \in UserOps : \E b \in {BlobOf(o), NullBlob} : EncodeSettle(o, b)
    \/ \E o \in UserOps : StartRemove(o)
    \/ \E o \in OpIds, ok \in BOOLEAN : OpenSettle(o, ok)
    \/ \E o \in OpIds, ev \in TxOutcomes : TxSettle(o, ev)
    \/ \E o \in OpIds : ShowBlob(o)

SpecPhoto == PhotoInit /\ [][NextPhoto]_vars

(***************************************************************************)
(* The page across reloads, with one upload or removal per load            *)
(***************************************************************************)
\* the page is closed or reloaded: its component, its promises, its object
\* URLs and its connections go, the store stays.  A transaction that has
\* begun ends, one way or another, before the page is gone.
Unload ==
    /\ ops[0].kind # "none"
    /\ ~Running
    /\ txQueue = <<>>
    /\ mounted' = FALSE
    /\ ops' = [o \in OpIds |-> NoOp]
    /\ liveUrls' = {}
    /\ openConns' = 0
    /\ profilePicUrl' = defaultProfile
    /\ photoError' = NoError
    /\ lastObjectUrlRef' = NullRef
    /\ UNCHANGED <<idb, txQueue, serverVars, startVars, formVars, fnVars>>

LoadOps == {0, 1}

NextReload ==
    \/ Mount
    \/ Unload
    \/ \E f \in Files : StartUpload(1, f)
    \/ DecodeSettle(1)
    \/ \E b \in {BlobOf(1), NullBlob} : EncodeSettle(1, b)
    \/ StartRemove(1)
    \/ \E o \in LoadOps, ok \in BOOLEAN : OpenSettle(o, ok)
    \/ \E o \in LoadOps, ev \in TxOutcomes : TxSettle(o, ev)
    \/ \E o \in LoadOps : ShowBlob(o)

\* the browser runs every callback that is due: the events of an open
\* request and of a transaction are delivered, and a function that has
\* started runs to its next await
ReloadFairness ==
    /\ \A o \in LoadOps : WF_vars(\E ok \in BOOLEAN : OpenSettle(o, ok))
    /\ \A o \in LoadOps : WF_vars(\E ev \in TxOutcomes : TxSettle(o, ev))
    /\ \A o \in LoadOps : WF_vars(ShowBlob(o))

SpecReload == PhotoInit /\ [][NextReload]_vars /\ ReloadFairness

(***************************************************************************)
(* drawToCanvas                                                            *)
(***************************************************************************)
MaxScale == 4         \* image edges up to MaxScale times maxSize (and a bit)
MaxDelta == 6         \* edges this close to a multiple of maxSize

\* compressFileToBlob calls drawToCanvas(img, 768)
maxSize == 768

\* a variant that drops the fraction
RoundDown(n, d) == n \div d

\* Math.round(n / d) for n >= 0 and d > 0: the nearest integer, a half
\* going up.  The double n / d is at least 1 / (2 d) away from any other
\* half-integer, far more than its rounding error, so the integer formula
\* gives what the floating-point one gives.
Round(n, d) == (2 * n + d) \div (2 * d)

\* the width and height drawToCanvas gives the canvas
drawToCanvas(width, height) ==
    IF width > height
    THEN IF width > maxSize
         THEN <<maxSize, Round(height * maxSize, width)>>
         ELSE <<width, height>>
    ELSE IF height > maxSize
         THEN <<Round(width * maxSize, height), maxSize>>
         ELSE <<width, height>>

\* the edge lengths tried: the smallest ones and those around the multiples
\* of maxSize
Dims ==
    (1..(MaxDelta + 1)) \cup
    {k * maxSize + d : k \in 1..MaxScale, d \in (0 - MaxDelta)..MaxDelta}

CanvasInit ==
    /\ env = AllEnv
    /\ proc = "listening"
    /\ ServerInit
    /\ FormIdle
    /\ PhotoIdle
    /\ fnIn \in Dims \X Dims
    /\ fnOut = <<>>
    /\ fnPc = "in"

CanvasApply ==
    /\ fnPc = "in"
    /\ fnOut' = drawToCanvas(fnIn[1], fnIn[2])
    /\ fnPc' = "out"
    /\ UNCHANGED <<fnIn, serverVars, startVars, formVars, photoVars>>

NextCanvas == CanvasApply

SpecCanvas == CanvasInit /\ [][NextCanvas]_vars

(***************************************************************************)
(* The store helpers by themselves: one call followed by another           *)
(***************************************************************************)
StoreOps == {1, 2}
StoreKeys == {"profilePic", "photo.png"}

StoreInit ==
    /\ env = AllEnv
    /\ proc = "listening"
    /\ ServerInit
    /\ FormIdle
    /\ FnIdle
    /\ idb \in {[k \in Keys |-> IF k \in StoreKeys THEN f[k] ELSE Absent] :
                   f \in [StoreKeys -> {Absent, BlobOf(0)}]}
    /\ txQueue = <<>>
    /\ openConns = 0
    /\ mounted = FALSE
    /\ profilePicUrl = defaultProfile
    /\ photoError = NoError
    /\ lastObjectUrlRef = NullRef
    /\ liveUrls = {}
    /\ ops = [o \in OpIds |-> NoOp]

NextStore ==
    \/ \E o \in StoreOps, kind \in HelperKinds, key \in StoreKeys :
          \E v \in (IF kind = "idbSet" THEN Values ELSE {NullBlob}) :
              StoreCall(o, kind, key, v)
    \/ \E o \in StoreOps, ok \in BOOLEAN : OpenSettle(o, ok)
    \/ \E o \in StoreOps, ev \in TxOutcomes : TxSettle(o, ev)

SpecStore == StoreInit /\ [][NextStore]_vars

(***************************************************************************)
(* The constraints of a contact message, as the interface states them      *)
(***************************************************************************)
\* the number of characters of v once surrounding whitespace is removed
TrimmedLen(v) ==
    LET lead == CHOOSE k \in 0..Len(v) :
                    /\ \A j \in 1..k : v[j] = " "
                    /\ (k = Len(v) \/ v[k + 1] # " ")
        trail == CHOOSE k \in 0..Len(v) :
                    /\ \A j \in (Len(v) - k + 1)..Len(v) : v[j] = " "
                    /\ (k = Len(v) \/ v[Len(v) - k] # " ")
    IN  IF lead = Len(v) THEN 0 ELSE Len(v) - lead - trail

FieldOk(f, v) ==
    CASE f = "name" -> TrimmedLen(v) >= 2 /\ TrimmedLen(v) <= 100
      [] f = "email" -> isEmail(v)
      [] f = "subject" -> TrimmedLen(v) >= 2 /\ TrimmedLen(v) <= 150
      [] f = "message" -> TrimmedLen(v) >= 5 /\ TrimmedLen(v) <= 5000

\* the fields of body b that violate their constraint
Violated(b) == {f \in {"name", "email", "subject", "message"} : ~FieldOk(f, b[f])}

Min2(a, b) == IF a <= b THEN a ELSE b
Statuses(r) == {responses[r][i].status : i \in 1..Len(responses[r])}
\* the request of slot r was turned away before the route's own middleware
RejectedEarly(r) == responses[r] \in {<<CorsResponse>>, <<RateLimitedResponse>>}

(***************************************************************************)
(* Claims                                                                  *)
(***************************************************************************)

\* C1: transporter.sendMail is called for a request only if all four fields
\* of the request as received pass validation; a request with an invalid
\* field causes no sendMail call at any point, and when it reaches the route
\* (it is not turned away by CORS or the rate limiter) its one response is 400.
C1_SendOnlyIfAllFieldsValid ==
    \A r \in Slots :
        /\ sendCalls[r] > 0 => Violated(req[r].raw) = {}
        /\ mail[r] # NoMail => Violated(req[r].raw) = {}
        /\ (Violated(req[r].raw) # {} /\ req[r].stage = "done" /\ ~RejectedEarly(r))
              => /\ Len(responses[r]) = 1
                 /\ responses[r][1].status = 400
                 /\ responses[r][1].body.ok = FALSE

\* a request with email "not-an-email" has been answered 400 without a send
C1_Witness ==
    \E r \in Slots :
        /\ req[r].raw = BadEmailBody
        /\ req[r].stage = "done"
        /\ Statuses(r) = {400}
        /\ sendCalls[r] = 0

\* C2: the limiter counts every request of an identity that reaches it, also
\* when several are in flight together (hits = seen); of the requests of one
\* window exactly the first 10 are let through; and a request answered 429
\* has neither been validated (no errors collected, no field sanitized) nor
\* caused a sendMail call.
C2_OverLimitRejectedBeforeValidation ==
    /\ \A ip \in Identities :
          /\ hits[ip] = seen[ip]
          /\ passed[ip] = Min2(seen[ip], limit)
    /\ \A r \in Slots :
          429 \in Statuses(r) =>
              /\ responses[r] = <<RateLimitedResponse>>
              /\ req[r].stage = "done"
              /\ errors[r] = <<>>
              /\ req[r].body = req[r].raw
              /\ sendCalls[r] = 0
              /\ mail[r] = NoMail

\* the 11th request of a window is rejected while another request of the
\* same identity is still being handled
C2_Witness ==
    \E r, q \in Slots :
        /\ r # q
        /\ responses[r] = <<RateLimitedResponse>>
        /\ req[q].ip = req[r].ip
        /\ req[q].stage \in {"validate", "handler", "sending"}
        /\ seen[req[r].ip] = limit + 1

\* the requests of ip let through during the 60 s that end now
RollingPasses(ip) == Len(SelectSeq(passLog[ip], LAMBDA t : t > now - windowMs))
\* the requests of ip let through since its current window began
WindowPasses(ip) ==
    Len(SelectSeq(passLog[ip], LAMBDA t : t >= resetTime[ip] - windowMs))

\* C3 as stated: in every rolling 60-second interval at most 10 requests of
\* one identity get past the rate limiter.
C3_RollingIntervalAtMostLimit ==
    \A ip \in Identities : RollingPasses(ip) <= limit

\* C3 as amended: at most 10 requests of one identity get past the limiter
\* in each of its fixed windows (a window begins at the identity's first
\* request after the previous window ended, and lasts 60 s); a rolling
\* 60-second interval lies across at most two windows and holds fewer than
\* 20; a request beyond the 10 of its window is answered 429 with no
\* validation and no sendMail call.
C3_FixedWindowAtMostLimit ==
    /\ \A ip \in Identities :
          /\ WindowPasses(ip) <= limit
          /\ RollingPasses(ip) < 2 * limit
    /\ \A r \in Slots :
          (req[r].stage = "done" /\ seen[req[r].ip] > limit /\ Statuses(r) = {429})
              => errors[r] = <<>> /\ sendCalls[r] = 0 /\ req[r].body = req[r].raw

\* more than 10 requests of one identity got through within 60 s
C3_Witness ==
    \E ip \in Identities : RollingPasses(ip) > limit /\ WindowPasses(ip) >= 1


\* the request of slot r has been through the validation chains
Validated(r) == req[r].stage \in {"handler", "sending", "done"} /\ ~RejectedEarly(r)
ErrorPaths(errs) == {errs[i].path : i \in 1..Len(errs)}

\* C4: after validation the error list holds exactly one entry for each field
\* that violates its constraint and none for the others, and that list is
\* the errors array of the 400 response.
C4_OneErrorPerViolatedField ==
    \A r \in Slots :
        Validated(r) =>
            /\ ErrorPaths(errors[r]) = Violated(req[r].raw)
            /\ Len(errors[r]) = Cardinality(Violated(req[r].raw))
            /\ (req[r].stage = "done" /\ Violated(req[r].raw) # {}) =>
                  /\ Statuses(r) = {400}
                  /\ responses[r][1].body.errors = errors[r]

\* a request that violates two fields, neither of them the first, was
\* answered 400 with two entries
C4_Witness ==
    \E r \in Slots :
        /\ req[r].stage = "done"
        /\ Statuses(r) = {400}
        /\ Violated(req[r].raw) = {"email", "message"}
        /\ Len(responses[r][1].body.errors) = 2

\* C5: a request causes at most one sendMail call; a request answered 200
\* made exactly one call, which resolved; a request whose call threw made
\* exactly one call and is answered 500.
C5_AtMostOneSendNoRetry ==
    \A r \in Slots :
        /\ sendCalls[r] <= 1
        /\ 200 \in Statuses(r) => sendCalls[r] = 1 /\ outcome[r] = "resolved"
        /\ outcome[r] \in TransportErrors =>
              /\ sendCalls[r] = 1
              /\ req[r].stage = "done"
              /\ Statuses(r) = {500}

\* a request whose sendMail call threw has been answered
C5_Witness ==
    \E r \in Slots :
        /\ outcome[r] \in TransportErrors
        /\ sendCalls[r] = 1
        /\ Statuses(r) = {500}

\* C6: a request gets at most one response; while its sendMail call is
\* pending it has none; once the call resolved the response is 200
\* {ok: true, message: "Sent"}; once it threw the response is 500
\* {ok: false, message: "Failed to send email"}, whatever the error.
C6_ResponseFollowsSendOutcome ==
    \A r \in Slots :
        /\ Len(responses[r]) <= 1
        /\ outcome[r] = "pending" => responses[r] = <<>> /\ req[r].stage = "sending"
        /\ outcome[r] = "resolved" =>
              responses[r] = <<[status |-> 200, body |-> [ok |-> TRUE, message |-> "Sent"]]>>
        /\ outcome[r] \in TransportErrors =>
              responses[r] = <<[status |-> 500,
                                body |-> [ok |-> FALSE, message |-> "Failed to send email"]]>>
        /\ (sendCalls[r] > 0 /\ responses[r] # <<>>) => outcome[r] \notin {"none", "pending"}

\* both kinds of transport error have been answered, one in each slot
C6_Witness ==
    \E r, q \in Slots :
        /\ outcome[r] = "EAUTH" /\ outcome[q] = "ECONNREFUSED"
        /\ responses[r] = responses[q]
        /\ responses[r] # <<>>

\* C7: validation accepts a request (collects no error, so that the handler
\* goes on to send) exactly when name has 2..100, subject 2..150 and message
\* 5..5000 characters after trimming and email is a valid address; the
\* example Al / a@b.com / Hi / hello! is answered 200 when the transport
\* resolves.
C7_AcceptsExactlyWithinLimits ==
    \A r \in Slots :
        /\ Validated(r) => (errors[r] = <<>> <=> Violated(req[r].raw) = {})
        /\ (Validated(r) /\ req[r].stage # "handler") =>
              (sendCalls[r] = 1 <=> Violated(req[r].raw) = {})
        /\ (req[r].raw = ExampleBody /\ outcome[r] = "resolved") =>
              responses[r] = <<SentResponse>>

\* a request with every field at its upper limit, blanks around two of them,
\* has been accepted
C7_Witness ==
    \E r \in Slots :
        /\ req[r].raw = [name |-> Padded(Word(100)), email |-> ExampleBody.email,
                         subject |-> Word(150), message |-> Padded(Word(5000))]
        /\ Statuses(r) = {200}

Entities == {EntAmp, EntLt, EntGt, EntQuot, EntApos}
StartsWith(s, i, e) == i + Len(e) - 1 <= Len(s) /\ SubSeq(s, i, i + Len(e) - 1) = e

\* the character an entity stands for
Decoded(e) ==
    CASE e = EntAmp -> "&" [] e = EntLt -> "<" [] e = EntGt -> ">"
      [] e = EntQuot -> "\"" [] e = EntApos -> "'"

RECURSIVE DecodeFrom(_, _)
\* s from position i on, read left to right with each of the five entities
\* replaced by its character
DecodeFrom(s, i) ==
    IF i > Len(s) THEN <<>>
    ELSE IF \E e \in Entities : StartsWith(s, i, e)
         THEN LET e == CHOOSE x \in Entities : StartsWith(s, i, x)
              IN  <<Decoded(e)>> \o DecodeFrom(s, i + Len(e))
         ELSE <<s[i]>> \o DecodeFrom(s, i + 1)

\* no raw markup character, and every "&" begins one of the five entities
MarkupFree(s) ==
    \A i \in 1..Len(s) :
        /\ s[i] \notin {"<", ">", "\"", "'"}
        /\ s[i] = "&" => \E e \in Entities : StartsWith(s, i, e)

\* C8: escapeHtml(s) holds no raw < > " ' and every & in it begins one of
\* the five entities; decoding the entities gives s back; and the html part
\* of the message handed to sendMail holds each of name, email, subject and
\* message of the request in that escaped form.
C8_EscapeHtmlSafeAndReversible ==
    /\ fnPc = "out" => MarkupFree(fnOut) /\ DecodeFrom(fnOut, 1) = fnIn
    /\ \A r \in Slots :
          mail[r] # NoMail =>
              \A f \in {"name", "email", "subject", "message"} :
                  /\ MarkupFree(mail[r].html[f])
                  /\ DecodeFrom(mail[r].html[f], 1) = req[r].body[f]

\* a name of markup and entity characters has been put, escaped, into a
\* message that was sent
C8_Witness ==
    \E r \in Slots :
        /\ fnIn = <<"<", "&", ";">>
        /\ fnOut = <<"&", "l", "t", ";", "&", "a", "m", "p", ";", ";">>
        /\ mail[r] # NoMail
        /\ req[r].body.name = fnIn
        /\ mail[r].html.name = fnOut
        /\ sendCalls[r] = 1

\* C9 as stated: the process listens, or serves a request, only if all
\* seven values (host, port, secure flag, user, password, recipient, sender)
\* are set.
C9_AllSevenValuesRequired ==
    (proc = "listening" \/ \E r \in Slots : req[r].stage # "idle")
        => {"SMTP_HOST", "SMTP_PORT", "SMTP_SECURE", "SMTP_USER", "SMTP_PASS",
            "MAIL_TO", "MAIL_FROM"} \subseteq env

\* C9 as amended: the process gets past its check, listens, or serves a
\* request only if host, port, user, password, recipient and sender are all
\* set (the secure flag may be absent); a process that exited never handles
\* a request.
C9_SixValuesRequired ==
    /\ (proc \in {"configured", "listening"} \/ \E r \in Slots : req[r].stage # "idle")
          => {"SMTP_HOST", "SMTP_PORT", "SMTP_USER", "SMTP_PASS",
              "MAIL_TO", "MAIL_FROM"} \subseteq env
    /\ proc \in {"boot", "exited"} =>
          /\ \A r \in Slots : req[r].stage = "idle" /\ responses[r] = <<>>
          /\ \A ip \in Identities : seen[ip] = 0

\* a process that lacked the sender address alone has exited
C9_Witness ==
    /\ proc = "exited"
    /\ AllEnv \ env = {"MAIL_FROM"}


(***************************************************************************)
(* C10                                                                     *)
(***************************************************************************)
StoredKeys == {k \in Keys : idb[k] # Absent}

\* C10: after any interleaving of mount loads, uploads and removals the
\* client-local store holds at most one entry, and the key of that entry is
\* "profilePic": an upload overwrites it and nothing is written elsewhere.
C10_AtMostOneEntryKeyedProfilePic ==
    /\ StoredKeys \subseteq {"profilePic"}
    /\ Cardinality(StoredKeys) <= 1

\* a photo of an earlier visit was loaded at mount, two uploads then stored
\* their blobs one after the other, and the store holds the later one alone
C10_Witness ==
    /\ ops[0].kind = "mount" /\ ops[0].result = "ok"
    /\ lastObjectUrlRef = BlobUrl(2)
    /\ ops[1].kind = "upload" /\ ops[1].result = "ok"
    /\ ops[2].kind = "upload" /\ ops[2].result = "ok"
    /\ idb["profilePic"] = BlobOf(2)
    /\ StoredKeys = {"profilePic"}


(***************************************************************************)
(* C11, C12                                                                *)
(***************************************************************************)
\* call q resolved and call o, made after it on the same key, resolved
Followed(q, o, first, second) ==
    /\ ops[q].kind = first /\ ops[q].pc = "done" /\ ops[q].result = "ok"
    /\ ops[o].kind = second /\ ops[o].pc = "done" /\ ops[o].result = "ok"
    /\ ops[o].key = ops[q].key

C12_MissingKeyIsNoError ==
    [][\A o \in StoreOps :
          (/\ ops[o].kind \in {"idbGet", "idbDelete"}
           /\ ops[o].pc = "tx" /\ ops'[o].pc # "tx"
           /\ ops'[o].env = "complete"
           /\ idb[ops[o].key] = Absent)
          => /\ ops'[o].pc = "done"
             /\ ops'[o].result = "ok"
             /\ ops'[o].got = NullBlob
             /\ idb' = idb]_vars

\* idbGet found no entry under a key and resolved with null, and idbDelete
\* on that key then resolved too
C12_Witness ==
    /\ Followed(1, 2, "idbGet", "idbDelete")
    /\ ops[1].got = NullBlob
    /\ ops[1].env = "complete" /\ ops[2].env = "complete"
    /\ idb[ops[2].key] = Absent


(***************************************************************************)
(* C13, C14, C15                                                           *)
(***************************************************************************)
\* no call is between its start and its end
AllSettled == \A o \in OpIds : ops[o].pc \in {"idle", "done"}

\* C13: once every idbSet, idbGet and idbDelete call has settled, no
\* connection opened by these calls is still open.
C13_NoConnectionLeftOpen == AllSettled => openConns = 0

\* the object URLs made from stored blobs that are created and not revoked
LiveBlobUrls == liveUrls \cap {BlobUrl(o) : o \in OpIds}

\* C14: at every point, the moment after a replacement URL is created
\* included, at most one object URL made from a stored blob is live.
C14_AtMostOneLiveBlobUrl == Cardinality(LiveBlobUrls) <= 1

\* C15: once the component is unmounted and every photo operation has
\* settled, no object URL made by the mount load or by an upload is live.
C15_NoLiveBlobUrlAfterTeardown ==
    (~mounted /\ ops[0].kind = "mount" /\ AllSettled) => LiveBlobUrls = {}


(***************************************************************************)
(* C16                                                                     *)
(***************************************************************************)
Max2(a, b) == IF a >= b THEN a ELSE b
Abs(a) == IF a >= 0 THEN a ELSE 0 - a

\* to is the nearest integer, or one of the two nearest, to from * 768 / by
NearestScaled(to, from, by) == 2 * Abs(to * by - from * 768) <= by

\* C16: for an image of w by h the canvas is at most 768 on each edge; an
\* image with both edges within 768 keeps its size; otherwise the longer
\* edge becomes 768 and the shorter one the nearest integer to its length
\* times 768 over the longer edge.
C16_LongerEdgeClampedRatioKept ==
    fnPc = "out" =>
        LET w == fnIn[1]
            h == fnIn[2]
            w2 == fnOut[1]
            h2 == fnOut[2]
        IN  /\ Max2(w2, h2) <= 768
            /\ Max2(w, h) <= 768 => fnOut = fnIn
            /\ (Max2(w, h) > 768 /\ w > h) => w2 = 768 /\ NearestScaled(h2, h, w)
            /\ (Max2(w, h) > 768 /\ w <= h) => h2 = 768 /\ NearestScaled(w2, w, h)

\* an image of 1537 by 769 has been given a canvas of 768 by 384
C16_Witness ==
    /\ fnPc = "out"
    /\ fnIn = <<2 * 768 + 1, 768 + 1>>
    /\ fnOut = <<768, 384>>


(***************************************************************************)
(* C17                                                                     *)
(***************************************************************************)
\* the mount load has settled and the user has done nothing since the load
LoadDone ==
    /\ mounted
    /\ ops[0].kind = "mount" /\ ops[0].pc = "done"
    /\ \A o \in UserOps : ops[o].kind = "none"

\* C17 as stated: once the load has settled, an entry under "profilePic"
\* means the display is the URL minted by the load, and no entry means the
\* display is the bundled default.
C17_LoadShowsEntryIfPresent ==
    LoadDone =>
        IF idb["profilePic"] # Absent
        THEN profilePicUrl = BlobUrl(0)
        ELSE profilePicUrl = defaultProfile

\* the load has read the store and the entry it found is a blob
LoadFoundBlob ==
    ops[0].env = "complete" /\ ~falsy(idb["profilePic"])

LoadSafety ==
    /\ \A o \in UserOps : ops[o].kind # "none" => helper(ops[o].kind) # "get"
    /\ LoadDone =>
          IF LoadFoundBlob
          THEN /\ profilePicUrl = BlobUrl(0)
               /\ lastObjectUrlRef = BlobUrl(0)
               /\ BlobUrl(0) \in liveUrls
               /\ ops[0].blob = idb["profilePic"]
               /\ photoError = NoError
          ELSE /\ profilePicUrl = defaultProfile
               /\ ops[0].env # "complete" <=> photoError = LoadErrorText

\* C17 as amended: each load reads "profilePic" once; if the read succeeds
\* and finds a blob, the display changes from the bundled default to a URL
\* newly minted from that blob; if there is no entry, if the entry holds
\* null, or if the read fails (then with the load error message), the
\* display stays on the default.  A load that has begun settles, so after a
\* successful upload and a reload the uploaded photo comes to be displayed
\* unless the read fails or the user acts first.
C17_LoadShowsStoredBlob ==
    /\ []LoadSafety
    /\ (ops[0].pc = "open" /\ ~falsy(idb["profilePic"])) ~>
          \/ profilePicUrl = BlobUrl(0) /\ ops[0].blob = idb["profilePic"]
          \/ photoError = LoadErrorText
          \/ ops[0].kind = "none"
          \/ \E o \in UserOps : ops[o].kind # "none"

\* the blob of an upload made before the last reload is displayed
C17_Witness ==
    /\ LoadDone
    /\ idb["profilePic"] = BlobOf(1)
    /\ ops[0].blob = BlobOf(1)
    /\ profilePicUrl = BlobUrl(0)


(***************************************************************************)
(* C18, C19                                                                *)
(***************************************************************************)
\* this step ends upload o in failure: its function reaches the catch, or
\* the write it waits for is abandoned
UploadFailsNow(o) ==
    /\ ops[o].kind = "upload"
    /\ ops[o].pc \notin {"done", "hung"}
    /\ \/ ops'[o].pc = "hung"
       \/ ops'[o].pc = "done" /\ ops'[o].result = "error"

\* C18: the step in which an upload fails (at decode, re-encode, store
\* write or minting) sets the photo error message, leaves the displayed
\* image and the live display reference as they were, and ends
\* handlePhotoPick normally.
C18_FailedUploadShowsMessageKeepsDisplay ==
    [][\A o \in UserOps :
          UploadFailsNow(o) =>
              /\ photoError' = SaveErrorText
              /\ profilePicUrl' = profilePicUrl
              /\ lastObjectUrlRef' = lastObjectUrlRef
              /\ LiveBlobUrls' = LiveBlobUrls
              /\ ops'[o].pc = "done"]_vars


\* C19: the step in which handlePhotoPick finishes on its error path leaves
\* the store as it was (no other step of an upload writes to the store), so
\* a failed upload never changes the entry under "profilePic".
C19_FailedUploadLeavesStore ==
    [][\A o \in UserOps :
          (UploadFailsNow(o) /\ ops'[o].pc = "done") => idb' = idb]_vars


(***************************************************************************)
(* C20                                                                     *)
(***************************************************************************)
\* C20: in the state in which removePhoto completes the displayed image is
\* the bundled default, the URL that lastObjectUrlRef held has been
\* revoked, no object URL of a stored blob is live, and lastObjectUrlRef is
\* null.
C20_RemoveShowsDefaultRevokesUrl ==
    [][\A o \in UserOps :
          (ops[o].kind = "remove" /\ ops[o].pc # "done" /\ ops'[o].pc = "done")
          => /\ profilePicUrl' = defaultProfile
             /\ lastObjectUrlRef' = NullRef
             /\ lastObjectUrlRef \notin liveUrls'
             /\ LiveBlobUrls' = {}]_vars

\* an uploaded photo was displayed and then removed
C20_Witness ==
    /\ ops[1].kind = "upload" /\ ops[1].result = "ok"
    /\ ops[2].kind = "remove" /\ ops[2].pc = "done" /\ ops[2].env = "complete"
    /\ profilePicUrl = defaultProfile
    /\ lastObjectUrlRef = NullRef
    /\ BlobUrl(1) \notin liveUrls
    /\ idb["profilePic"] = Absent


(***************************************************************************)
(* C21                                                                     *)
(***************************************************************************)
\* C21: once removePhoto has completed, with no upload running beside it
\* (it is the only operation the user started since the load), the store has
\* no entry under "profilePic".
C21_RemovalErasesEntry ==
    (ops[1].kind = "remove" /\ ops[1].pc = "done"
        /\ \A o \in UserOps : o # 1 => ops[o].kind = "none")
    => idb["profilePic"] = Absent


(***************************************************************************)
(* C22                                                                     *)
(***************************************************************************)
\* uploads o and q are the only operations the user started, and both
\* succeeded
BothUploaded(o, q) ==
    /\ o # q
    /\ \A u \in {o, q} : ops[u].kind = "upload" /\ ops[u].pc = "done"
                         /\ ops[u].result = "ok"
    /\ \A u \in UserOps \ {o, q} : ops[u].kind = "none"

\* C22: the step in which the write of an upload completes makes that
\* upload's blob the entry under "profilePic", whatever another upload
\* wrote before; so after two overlapping uploads that both succeeded the
\* entry is the whole blob of one of them, the one whose write completed
\* last.
C22_LastCompletedWriteWins ==
    /\ [](\A o, q \in UserOps :
             BothUploaded(o, q) => idb["profilePic"] \in {ops[o].blob, ops[q].blob})
    /\ [][\A o \in UserOps :
             (ops[o].kind = "upload" /\ ops[o].pc = "tx" /\ ops'[o].pc = "minted")
             => idb'["profilePic"] = ops[o].blob]_vars

\* the upload started first wrote last: both succeeded and its blob is the
\* one stored and displayed
C22_Witness ==
    /\ BothUploaded(1, 2)
    /\ idb["profilePic"] = BlobOf(1)
    /\ profilePicUrl = BlobUrl(1)


(***************************************************************************)
(* C23                                                                     *)
(***************************************************************************)
\* C23: no upload that has started is left waiting for a promise that no
\* callback will ever settle; whatever the outcome of decode, re-encode,
\* open and write, handlePhotoPick can still go on to its end.
C23_NoUploadWaitsForever ==
    \A o \in UserOps : ops[o].kind = "upload" => ops[o].pc # "hung"


\* C24: a request whose Origin header is not on the allow-list is answered
\* by the CORS middleware in the step in which it arrives: it never reaches
\* the rate limiter, the validators or the transport, so the caller's hit
\* count and window are left as they were and no mail is composed or sent
\* for it; a request without an Origin header, or with a listed one, goes on
\* to the rate limiter without a response.
C24_CorsRejectsBeforeLimiter ==
    /\ [](\A r \in Slots : responses[r] = <<CorsResponse>>
            => /\ req[r].stage = "done"
               /\ errors[r] = <<>>
               /\ sendCalls[r] = 0
               /\ mail[r] = NoMail
               /\ outcome[r] = "none")
    /\ [][\A r \in Slots, ip \in Identities, o \in Origins, b \in SampleBodies :
            Arrive(r, ip, o, b) =>
                IF o # "none" /\ o \notin allowed
                THEN /\ req'[r].stage = "done"
                     /\ responses'[r] = <<CorsResponse>>
                     /\ hits' = hits /\ resetTime' = resetTime
                     /\ seen' = seen /\ passed' = passed
                     /\ sendCalls' = sendCalls /\ mail' = mail
                ELSE /\ req'[r].stage = "limiter"
                     /\ responses'[r] = <<>>]_vars
C24_Witness ==
    /\ responses[1] = <<CorsResponse>>
    /\ hits["ipA"] = limit
    /\ req[2].stage = "idle"


\* C25: whenever the component is mounted and every photo operation that was
\* started (the mount load, uploads, removals) has settled, the display
\* agrees with the store: the bundled default is displayed exactly when the
\* store holds no usable "profilePic" entry, and otherwise the displayed
\* object URL was minted from the blob that is stored.
C25_DisplayAgreesWithStore ==
    (mounted /\ AllSettled)
    => /\ (profilePicUrl = defaultProfile) <=> falsy(idb["profilePic"])
       /\ \A o \in OpIds : profilePicUrl = BlobUrl(o) => ops[o].blob = idb["profilePic"]


\* C26: while the component is mounted, what is displayed is either the
\* bundled default, and then lastObjectUrlRef is null, or exactly the object
\* URL held in lastObjectUrlRef, which is created and not revoked; hence the
\* "Remove photo" button is rendered exactly when the displayed source is a
\* live object URL of a stored photo.
C26_DisplayedUrlIsLastRefAndLive ==
    mounted =>
        /\ \/ profilePicUrl = defaultProfile /\ lastObjectUrlRef = NullRef
           \/ /\ profilePicUrl # defaultProfile
              /\ profilePicUrl = lastObjectUrlRef
              /\ profilePicUrl \in liveUrls
        /\ RemoveOffered <=> profilePicUrl \in LiveBlobUrls
\* a second upload is displayed after the first one's URL was revoked
C26_Witness ==
    /\ mounted
    /\ profilePicUrl = BlobUrl(2)
    /\ lastObjectUrlRef = BlobUrl(2)
    /\ BlobUrl(1) \notin liveUrls
    /\ ops[1].kind = "upload" /\ ops[1].result = "ok"


\* C27: for every image whose width and height are at least 1, both
\* dimensions drawToCanvas(img, 768) gives the canvas are at least 1.
C27_CanvasNeverEmpty ==
    (fnPc = "out" /\ fnIn[1] >= 1 /\ fnIn[2] >= 1)
    => (fnOut[1] >= 1 /\ fnOut[2] >= 1)


\* C28: the rate limiter counts every request that reaches it on
\* /api/contact, however the request ends.  With the transport down every
\* request let through is answered 400 or 500, yet the count of the window
\* is the number of requests that reached the limiter, no step after the
\* limiter gives a hit back, and a request that reaches the limiter when
\* limit requests were counted in the running window is answered 429 with
\* no validation and no mail, a fully valid one included.  A request to
\* /api/health changes neither the count nor the window.
C28_LimiterCountsEveryEnding ==
    /\ [](\A r \in Slots : \A i \in 1..Len(responses[r]) :
            /\ responses[r][i] # SentResponse
            /\ responses[r][i].status \in {400, 500, 429, 200}
            /\ responses[r][i].status = 200 => responses[r][i] = HealthResponse)
    /\ [](\A ip \in Identities : hits[ip] = seen[ip])
    /\ [](\A r \in Slots : responses[r] = <<RateLimitedResponse>>
            => /\ errors[r] = <<>>
               /\ sendCalls[r] = 0
               /\ mail[r] = NoMail
               /\ req[r].body = req[r].raw)
    /\ [][\A r \in Slots :
            (req[r].stage = "limiter" /\ req'[r].stage # "limiter"
                /\ resetTime[req[r].ip] > now /\ seen[req[r].ip] >= limit)
            => /\ req'[r].stage = "done"
               /\ responses'[r] = <<RateLimitedResponse>>]_vars
    /\ [][(\A r \in Slots : req[r].stage # "limiter")
            => hits' = hits /\ resetTime' = resetTime]_vars
    /\ [][\A r \in Slots, ip \in Identities, o \in Origins :
            Health(r, ip, o)
            => /\ hits' = hits /\ resetTime' = resetTime
               /\ responses'[r] \in {<<HealthResponse>>, <<CorsResponse>>}]_vars
\* the eleventh request of a window, a fully valid one, turned away after
\* ten that were let through and answered 400 or 500
C28_Witness ==
    /\ req[1].stage = "done"
    /\ req[1].raw = GoodBody
    /\ responses[1] = <<RateLimitedResponse>>
    /\ seen["ipA"] = limit + 1
    /\ passed["ipA"] = limit
    /\ hits["ipA"] = limit + 1


\* the handleSubmit calls whose request has not settled
InFlight == {c \in Calls : calls[c].pc \in {"fetch", "json"}}

\* C29: isSubmitting becomes true when handleSubmit starts and false in the
\* step in which its request settles for good, on every path (a 2xx with an
\* ok body, a status outside 2xx, a body that is not JSON, a network
\* failure); it is true exactly while a request is in flight, and since the
\* disabled button lets no submission start, at most one request is in
\* flight; a submission whose request settles leads to isSubmitting false.
C29_SubmittingGuardsOneRequest ==
    /\ [](Cardinality(InFlight) <= 1)
    /\ [](isSubmitting <=> InFlight # {})
    /\ [][\A c \in Calls :
            /\ (calls[c].pc = "none" /\ calls'[c].pc # "none") => isSubmitting'
            /\ (calls[c].pc # "done" /\ calls'[c].pc = "done") => ~isSubmitting']_vars
    /\ \A c \in Calls : (calls[c].pc = "fetch") ~> (calls[c].pc = "done" /\ ~isSubmitting)
\* a second submission under way after a first one that ended in the catch
\* block for a body that is not JSON
C29_Witness ==
    /\ calls[1].pc = "done" /\ calls[1].net = "response" /\ ~calls[1].res.body.json
    /\ calls[2].pc = "json"
    /\ isSubmitting


====
